---- MODULE Spec2Model ----
(***************************************************************************)
(* State-machine model of the TimeBankFHE ledger contract                  *)
(* (src/frontend/web/src/App.tsx, lines 821-1052).                         *)
(*                                                                         *)
(* Every external function is one action.  The outcome of a call ("ok" or  *)
(* the error it reverts with) is a function of the storage, the block time *)
(* and the arguments; it is computed by the <function>Outcome operators,   *)
(* which apply the modifiers and checks in the order the code runs them.   *)
(* A call that reverts rolls the storage back (EVM semantics), so a        *)
(* reverting call is a step that changes nothing.                          *)
(***************************************************************************)
EXTENDS Integers, Sequences, FiniteSets, TLC

(* ---------------------------- bounds ---------------------------------- *)
MaxBatch == 2
MaxRequests == 1
MaxTicks == 1
MaxHoursTotal == 5
TickSeconds == 60
StartTime == 1000
UintBits == 16

(* uint256, scaled down to UintBits bits: arithmetic on it is checked. *)
UintMax == 2^UintBits - 1

Accounts == {"deployer", "alice"}
Deployer == "deployer"
BatchIds == 0..(MaxBatch + 1)
RequestIds == 1..(MaxRequests + 1)
Hours == {2, 3}
InitialCooldownSeconds == 60
CooldownChoices == {InitialCooldownSeconds, UintMax}

(* ----------------------- external FHE library -------------------------- *)
(* An euint32 is a handle.  The default value of a handle is the zero      *)
(* handle; every FHE operation returns a non-zero handle that is a         *)
(* function of the operation and its operands.                             *)
UninitHandle == <<>>

isInitialized(v) == v /= UninitHandle

asEuint32(value) == <<"trivialEncrypt", value>>

(* FHE.add replaces an uninitialized operand by asEuint32(0). *)
add(a, b) ==
    LET lhs == IF isInitialized(a) THEN a ELSE asEuint32(0)
        rhs == IF isInitialized(b) THEN b ELSE asEuint32(0)
    IN  <<"fheAdd", lhs, rhs>>

toBytes32(v) == v

(* The value a handle decrypts to (what the oracle would return). *)
RECURSIVE Plaintext(_)
Plaintext(h) ==
    IF h = UninitHandle THEN 0
    ELSE IF h[1] = "trivialEncrypt" THEN h[2]
    ELSE Plaintext(h[2]) + Plaintext(h[3])

(* KMS signatures: a proof is genuine for exactly one (requestId, cleartexts). *)
Sign(requestId, cleartexts) == <<"kms", requestId, cleartexts>>
ForgedProof == <<"forged">>
checkSignatures(requestId, cleartexts, proof) == proof = Sign(requestId, cleartexts)

(* Cleartexts the oracle or anybody else may deliver: byte strings. *)
Cleartexts == { <<0, 0, 0, 5, 0, 0, 0, 0>>, <<0, 0, 0, 5>> }

(* uint32(bytes4(cleartexts[from : from + 4])): big-endian decoding. *)
DecodeUint32(bytes, from) ==
    ((bytes[from + 1] * 256 + bytes[from + 2]) * 256 + bytes[from + 3]) * 256 + bytes[from + 4]

(* ------------------------------ state ---------------------------------- *)
VARIABLES
    owner,
    isProvider,
    paused,
    cooldownSeconds,
    lastSubmissionTime,
    lastDecryptionRequestTime,
    currentBatchId,
    isBatchClosed,
    decryptionContexts,
    now,               \* block.timestamp
    oracleRequests,    \* the oracle's table: request id -> ciphertext array submitted
    submitted,         \* history: batch id -> plaintext sums of the accepted amounts
    completed          \* history: request id -> number of DecryptionCompleted events

contractVars == <<owner, isProvider, paused, cooldownSeconds, lastSubmissionTime,
                  lastDecryptionRequestTime, currentBatchId, isBatchClosed,
                  decryptionContexts>>

vars == <<owner, isProvider, paused, cooldownSeconds, lastSubmissionTime,
          lastDecryptionRequestTime, currentBatchId, isBatchClosed,
          decryptionContexts, now, oracleRequests, submitted, completed>>

ThisContract == "TimeBankFHE"
ZeroHash == <<>>
EmptyContext == [batchId |-> 0, stateHash |-> ZeroHash, processed |-> FALSE]

(* --------------------------- modifiers --------------------------------- *)
(* Variant: a provider passes the owner check too. *)
onlyOwner_OrProvider(sender) ==
    IF sender /= owner /\ ~isProvider[sender] THEN "NotOwner" ELSE "ok"

onlyOwner(sender) == IF sender /= owner THEN "NotOwner" ELSE "ok"

(* Variant: the owner passes the provider check too. *)
onlyProvider_OrOwner(sender) ==
    IF ~isProvider[sender] /\ sender /= owner THEN "NotProvider" ELSE "ok"

onlyProvider(sender) == IF ~isProvider[sender] THEN "NotProvider" ELSE "ok"

whenNotPaused == IF paused THEN "PausedError" ELSE "ok"

(* Variant: the comparison is <= instead of <. *)
checkCooldown_Inclusive(account, lastTimeMap) ==
    IF lastTimeMap[account] + cooldownSeconds > UintMax THEN "Panic"
    ELSE IF now <= lastTimeMap[account] + cooldownSeconds THEN "CooldownActive"
    ELSE "ok"

(* The sum is checked arithmetic (pragma ^0.8.24): on overflow the call     *)
(* reverts with Panic(0x11) before the comparison.                         *)
checkCooldown(account, lastTimeMap) ==
    IF lastTimeMap[account] + cooldownSeconds > UintMax THEN "Panic"
    ELSE IF now < lastTimeMap[account] + cooldownSeconds THEN "CooldownActive"
    ELSE "ok"

(* The first modifier or check that reverts decides the outcome. *)
RECURSIVE FirstRevert(_)
FirstRevert(checks) ==
    IF checks = <<>> THEN "ok"
    ELSE IF Head(checks) /= "ok" THEN Head(checks)
    ELSE FirstRevert(Tail(checks))

_hashCiphertexts(cts) == <<cts, ThisContract>>

(* ----------------------------- Init ------------------------------------ *)
Init ==
    /\ owner = Deployer
    /\ isProvider = [a \in Accounts |-> a = Deployer]
    /\ paused = FALSE
    /\ cooldownSeconds = InitialCooldownSeconds
    /\ lastSubmissionTime = [a \in Accounts |-> 0]
    /\ lastDecryptionRequestTime = [a \in Accounts |-> 0]
    /\ currentBatchId = 1
    /\ isBatchClosed = [b \in BatchIds |-> FALSE]
    /\ decryptionContexts = [r \in RequestIds |-> EmptyContext]
    /\ now = StartTime
    /\ oracleRequests = <<>>
    /\ submitted = [b \in BatchIds |-> [deposited |-> 0, withdrawn |-> 0]]
    /\ completed = [r \in RequestIds |-> 0]

(* --------------------- administrative surface -------------------------- *)
transferOwnershipOutcome(sender, newOwner) == onlyOwner(sender)

(* Variant: the new owner is enrolled as a provider as well. *)
transferOwnership_GrantsProvider(sender, newOwner) ==
    IF transferOwnershipOutcome(sender, newOwner) = "ok"
    THEN /\ owner' = newOwner
         /\ isProvider' = [isProvider EXCEPT ![newOwner] = TRUE]
         /\ UNCHANGED <<paused, cooldownSeconds, lastSubmissionTime,
                        lastDecryptionRequestTime, currentBatchId, isBatchClosed,
                        decryptionContexts, now, oracleRequests, submitted, completed>>
    ELSE UNCHANGED vars

transferOwnership(sender, newOwner) ==
    IF transferOwnershipOutcome(sender, newOwner) = "ok"
    THEN /\ owner' = newOwner
         /\ UNCHANGED <<isProvider, paused, cooldownSeconds, lastSubmissionTime,
                        lastDecryptionRequestTime, currentBatchId, isBatchClosed,
                        decryptionContexts, now, oracleRequests, submitted, completed>>
    ELSE UNCHANGED vars

addProviderOutcome(sender, provider) == onlyOwner(sender)

(* The events an accepted addProvider emits (lines 907-910). *)
addProviderEvents(sender, provider) ==
    IF ~isProvider[provider] THEN << <<"ProviderAdded", provider>> >> ELSE <<>>

(* Variant: the membership is flipped without testing it. *)
addProvider_Toggle(sender, provider) ==
    IF addProviderOutcome(sender, provider) = "ok"
    THEN /\ isProvider' = [isProvider EXCEPT ![provider] = ~@]
         /\ UNCHANGED <<owner, paused, cooldownSeconds, lastSubmissionTime,
                        lastDecryptionRequestTime, currentBatchId, isBatchClosed,
                        decryptionContexts, now, oracleRequests, submitted, completed>>
    ELSE UNCHANGED vars

addProvider(sender, provider) ==
    IF addProviderOutcome(sender, provider) = "ok"
    THEN /\ isProvider' = IF ~isProvider[provider]
                          THEN [isProvider EXCEPT ![provider] = TRUE]
                          ELSE isProvider
         /\ UNCHANGED <<owner, paused, cooldownSeconds, lastSubmissionTime,
                        lastDecryptionRequestTime, currentBatchId, isBatchClosed,
                        decryptionContexts, now, oracleRequests, submitted, completed>>
    ELSE UNCHANGED vars

removeProviderOutcome(sender, provider) == onlyOwner(sender)

(* The events an accepted removeProvider emits (lines 914-917). *)
removeProviderEvents(sender, provider) ==
    IF isProvider[provider] THEN << <<"ProviderRemoved", provider>> >> ELSE <<>>

removeProvider(sender, provider) ==
    IF removeProviderOutcome(sender, provider) = "ok"
    THEN /\ isProvider' = IF isProvider[provider]
                          THEN [isProvider EXCEPT ![provider] = FALSE]
                          ELSE isProvider
         /\ UNCHANGED <<owner, paused, cooldownSeconds, lastSubmissionTime,
                        lastDecryptionRequestTime, currentBatchId, isBatchClosed,
                        decryptionContexts, now, oracleRequests, submitted, completed>>
    ELSE UNCHANGED vars

pauseOutcome(sender) == FirstRevert(<<onlyOwner(sender), whenNotPaused>>)

pause(sender) ==
    IF pauseOutcome(sender) = "ok"
    THEN /\ paused' = TRUE
         /\ UNCHANGED <<owner, isProvider, cooldownSeconds, lastSubmissionTime,
                        lastDecryptionRequestTime, currentBatchId, isBatchClosed,
                        decryptionContexts, now, oracleRequests, submitted, completed>>
    ELSE UNCHANGED vars

(* Variant: unpause is refused unless the system is paused. *)
unpauseOutcome_WhenPaused(sender) ==
    FirstRevert(<<onlyOwner(sender), IF ~paused THEN "NotPaused" ELSE "ok">>)

unpauseOutcome(sender) == onlyOwner(sender)

unpause(sender) ==
    IF unpauseOutcome(sender) = "ok"
    THEN /\ paused' = FALSE
         /\ UNCHANGED <<owner, isProvider, cooldownSeconds, lastSubmissionTime,
                        lastDecryptionRequestTime, currentBatchId, isBatchClosed,
                        decryptionContexts, now, oracleRequests, submitted, completed>>
    ELSE UNCHANGED vars

setCooldownSecondsOutcome(sender, newCooldownSeconds) == onlyOwner(sender)

setCooldownSeconds(sender, newCooldownSeconds) ==
    IF setCooldownSecondsOutcome(sender, newCooldownSeconds) = "ok"
    THEN /\ cooldownSeconds' = newCooldownSeconds
         /\ UNCHANGED <<owner, isProvider, paused, lastSubmissionTime,
                        lastDecryptionRequestTime, currentBatchId, isBatchClosed,
                        decryptionContexts, now, oracleRequests, submitted, completed>>
    ELSE UNCHANGED vars

(* --------------------------- batch manager ----------------------------- *)
openNewBatchOutcome(sender) == onlyOwner(sender)

(* currentBatchId++ ; the model stops opening batches at MaxBatch. *)
(* Variant: the closed flag is set on the id that has just been opened. *)
openNewBatch_ClosesNew(sender) ==
    IF openNewBatchOutcome(sender) = "ok"
    THEN /\ currentBatchId < MaxBatch
         /\ currentBatchId' = currentBatchId + 1
         /\ isBatchClosed' = [isBatchClosed EXCEPT ![currentBatchId + 1] = TRUE]
         /\ UNCHANGED <<owner, isProvider, paused, cooldownSeconds, lastSubmissionTime,
                        lastDecryptionRequestTime,
                        decryptionContexts, now, oracleRequests, submitted, completed>>
    ELSE UNCHANGED vars

openNewBatch(sender) ==
    IF openNewBatchOutcome(sender) = "ok"
    THEN /\ currentBatchId < MaxBatch
         /\ currentBatchId' = currentBatchId + 1
         /\ UNCHANGED <<owner, isProvider, paused, cooldownSeconds, lastSubmissionTime,
                        lastDecryptionRequestTime, isBatchClosed,
                        decryptionContexts, now, oracleRequests, submitted, completed>>
    ELSE UNCHANGED vars

closeCurrentBatchOutcome(sender) == onlyOwner(sender)

(* Variant: closing a batch also opens the next one. *)
closeCurrentBatch_AutoOpen(sender) ==
    IF closeCurrentBatchOutcome(sender) = "ok"
    THEN /\ isBatchClosed' = [isBatchClosed EXCEPT ![currentBatchId] = TRUE]
         /\ currentBatchId' = IF currentBatchId < MaxBatch
                               THEN currentBatchId + 1 ELSE currentBatchId
         /\ UNCHANGED <<owner, isProvider, paused, cooldownSeconds, lastSubmissionTime,
                        lastDecryptionRequestTime,
                        decryptionContexts, now, oracleRequests, submitted, completed>>
    ELSE UNCHANGED vars

(* Variant: the flag is flipped instead of set. *)
closeCurrentBatch_Toggle(sender) ==
    IF closeCurrentBatchOutcome(sender) = "ok"
    THEN /\ isBatchClosed' = [isBatchClosed EXCEPT ![currentBatchId] = ~@]
         /\ UNCHANGED <<owner, isProvider, paused, cooldownSeconds, lastSubmissionTime,
                        lastDecryptionRequestTime, currentBatchId,
                        decryptionContexts, now, oracleRequests, submitted, completed>>
    ELSE UNCHANGED vars

closeCurrentBatch(sender) ==
    IF closeCurrentBatchOutcome(sender) = "ok"
    THEN /\ isBatchClosed' = [isBatchClosed EXCEPT ![currentBatchId] = TRUE]
         /\ UNCHANGED <<owner, isProvider, paused, cooldownSeconds, lastSubmissionTime,
                        lastDecryptionRequestTime, currentBatchId,
                        decryptionContexts, now, oracleRequests, submitted, completed>>
    ELSE UNCHANGED vars

(* -------------------------- encrypted ledger --------------------------- *)
(* _initIfNeeded(v): v.add(FHE.asEuint32(0)); the result is discarded and   *)
(* nothing is written to storage.                                          *)
_initIfNeeded(v) == add(v, asEuint32(0))

(* Variant: the closed-batch check is missing. *)
depositTimeOutcome_NoBatchCheck(sender, hrs) ==
    FirstRevert(<<onlyProvider(sender),
                  whenNotPaused,
                  checkCooldown(sender, lastSubmissionTime)>>)

depositTimeOutcome(sender, hrs) ==
    FirstRevert(<<onlyProvider(sender),
                  whenNotPaused,
                  checkCooldown(sender, lastSubmissionTime),
                  IF isBatchClosed[currentBatchId] THEN "BatchClosedError" ELSE "ok">>)

(* The events an accepted depositTime emits. *)
depositTimeEvents(sender, hrs) ==
    << <<"TimeDeposited", sender, currentBatchId, asEuint32(hrs)>> >>

(* Variant: the timestamp goes into the map of the other class. *)
recordSubmission_WrongMap(sender) ==
    /\ lastDecryptionRequestTime' = [lastDecryptionRequestTime EXCEPT ![sender] = now]
    /\ UNCHANGED <<owner, isProvider, paused, cooldownSeconds,
                   lastSubmissionTime, currentBatchId, isBatchClosed,
                   decryptionContexts, now, oracleRequests, completed>>

(* Variant: an accepted submission stamps both cooldown classes. *)
recordSubmission_BothMaps(sender) ==
    /\ lastSubmissionTime' = [lastSubmissionTime EXCEPT ![sender] = now]
    /\ lastDecryptionRequestTime' = [lastDecryptionRequestTime EXCEPT ![sender] = now]
    /\ UNCHANGED <<owner, isProvider, paused, cooldownSeconds,
                   currentBatchId, isBatchClosed,
                   decryptionContexts, now, oracleRequests, completed>>

(* The storage writes of an accepted depositTime / withdrawTime (lines 953,  *)
(* 963): the aggregate of the batch is not written.                         *)
recordSubmission(sender) ==
    /\ lastSubmissionTime' = [lastSubmissionTime EXCEPT ![sender] = now]
    /\ UNCHANGED <<owner, isProvider, paused, cooldownSeconds,
                   lastDecryptionRequestTime, currentBatchId, isBatchClosed,
                   decryptionContexts, now, oracleRequests, completed>>

depositTime(sender, hrs) ==
    IF depositTimeOutcome(sender, hrs) = "ok"
    THEN recordSubmission(sender) /\ UNCHANGED submitted
    ELSE UNCHANGED vars

(* Variant: whenNotPaused runs before onlyProvider. *)
withdrawTimeOutcome_PausedFirst(sender, hrs) ==
    FirstRevert(<<whenNotPaused,
                  onlyProvider(sender),
                  checkCooldown(sender, lastSubmissionTime),
                  IF isBatchClosed[currentBatchId] THEN "BatchClosedError" ELSE "ok">>)

withdrawTimeOutcome(sender, hrs) ==
    FirstRevert(<<onlyProvider(sender),
                  whenNotPaused,
                  checkCooldown(sender, lastSubmissionTime),
                  IF isBatchClosed[currentBatchId] THEN "BatchClosedError" ELSE "ok">>)

withdrawTimeEvents(sender, hrs) ==
    << <<"TimeWithdrawn", sender, currentBatchId, asEuint32(hrs)>> >>

withdrawTime(sender, hrs) ==
    IF withdrawTimeOutcome(sender, hrs) = "ok"
    THEN recordSubmission(sender) /\ UNCHANGED submitted
    ELSE UNCHANGED vars

(* ------------------------- disclosure protocol ------------------------- *)
(* Lines 969-996: the ciphertext array requestBatchSummary submits.  The    *)
(* two totals are fresh local variables; nothing is read from storage.     *)
RequestCiphertexts(batchId) ==
    LET totalDeposits0 == UninitHandle
        totalWithdrawals0 == UninitHandle
        depositsInit == isInitialized(totalDeposits0)
        totalDeposits1 == IF depositsInit THEN totalDeposits0 ELSE asEuint32(0)
        withdrawalsInit == isInitialized(totalWithdrawals0)
        totalWithdrawals1 == IF withdrawalsInit THEN totalWithdrawals0 ELSE asEuint32(0)
        initialized == depositsInit \/ withdrawalsInit
        totalDeposits2 == IF ~initialized
                          THEN add(totalDeposits1, asEuint32(0))
                          ELSE totalDeposits1
    IN  <<toBytes32(totalDeposits2), toBytes32(totalWithdrawals1)>>

(* Lines 1011-1021: the ciphertext array myCallback rebuilds. *)
CallbackCiphertexts(batchId) ==
    LET totalDeposits0 == UninitHandle
        totalWithdrawals0 == UninitHandle
        initialized == isInitialized(totalDeposits0) \/ isInitialized(totalWithdrawals0)
        totalDeposits1 == IF ~initialized
                          THEN add(totalDeposits0, asEuint32(0))
                          ELSE totalDeposits0
    IN  <<toBytes32(totalDeposits1), toBytes32(totalWithdrawals0)>>

(* Variant: the cooldown modifier runs before whenNotPaused. *)
requestBatchSummaryOutcome_CooldownFirst(sender, batchId) ==
    FirstRevert(<<onlyProvider(sender),
                  checkCooldown(sender, lastDecryptionRequestTime),
                  whenNotPaused,
                  IF ~isBatchClosed[batchId] THEN "Batch not closed" ELSE "ok">>)

(* Variant: only the open current batch is refused. *)
requestBatchSummaryOutcome_CurrentOnly(sender, batchId) ==
    FirstRevert(<<onlyProvider(sender),
                  whenNotPaused,
                  checkCooldown(sender, lastDecryptionRequestTime),
                  IF batchId = currentBatchId /\ ~isBatchClosed[batchId]
                  THEN "Batch not closed" ELSE "ok">>)

(* Variant: the closed flag of the batch is not required. *)
requestBatchSummaryOutcome_NoClosedCheck(sender, batchId) ==
    FirstRevert(<<onlyProvider(sender),
                  whenNotPaused,
                  checkCooldown(sender, lastDecryptionRequestTime)>>)

(* Variant: a batch with a pending request cannot be requested again. *)
requestBatchSummaryOutcome_OnePerBatch(sender, batchId) ==
    FirstRevert(<<onlyProvider(sender),
                  whenNotPaused,
                  checkCooldown(sender, lastDecryptionRequestTime),
                  IF ~isBatchClosed[batchId] THEN "Batch not closed" ELSE "ok",
                  IF \E r \in DOMAIN decryptionContexts :
                        /\ decryptionContexts[r].stateHash /= ZeroHash
                        /\ decryptionContexts[r].batchId = batchId
                        /\ ~decryptionContexts[r].processed
                  THEN "Already requested" ELSE "ok">>)

requestBatchSummaryOutcome(sender, batchId) ==
    FirstRevert(<<onlyProvider(sender),
                  whenNotPaused,
                  checkCooldown(sender, lastDecryptionRequestTime),
                  IF ~isBatchClosed[batchId] THEN "Batch not closed" ELSE "ok">>)

(* FHE.requestDecryption: the oracle stores the array and returns a fresh id. *)
NextRequestId == Len(oracleRequests) + 1

(* The event an accepted requestBatchSummary emits (line 1002). *)
requestBatchSummaryEvents(sender, batchId) ==
    << <<"DecryptionRequested", NextRequestId, batchId>> >>

(* Variant: the disclosure timestamp of the caller is not recorded. *)
requestBatchSummary_NoTimestamp(sender, batchId) ==
    IF requestBatchSummaryOutcome(sender, batchId) = "ok"
    THEN LET cts == RequestCiphertexts(batchId)
             stateHash == _hashCiphertexts(cts)
             requestId == NextRequestId
         IN  /\ Len(oracleRequests) < MaxRequests
             /\ oracleRequests' = Append(oracleRequests, cts)
             /\ decryptionContexts' =
                    [decryptionContexts EXCEPT ![requestId] =
                        [batchId |-> batchId, stateHash |-> stateHash, processed |-> FALSE]]
             /\ UNCHANGED <<owner, isProvider, paused, cooldownSeconds, lastSubmissionTime,
                            lastDecryptionRequestTime, currentBatchId, isBatchClosed,
                            now, submitted, completed>>
    ELSE UNCHANGED vars

(* requestBatchSummary while the oracle has issued fewer than maxRequests  *)
(* ids (the bound of the model on the number of requests).                 *)
requestBatchSummaryWithin(sender, batchId, maxRequests) ==
    IF requestBatchSummaryOutcome(sender, batchId) = "ok"
    THEN LET cts == RequestCiphertexts(batchId)
             stateHash == _hashCiphertexts(cts)
             requestId == NextRequestId
         IN  /\ Len(oracleRequests) < maxRequests
             /\ oracleRequests' = Append(oracleRequests, cts)
             /\ decryptionContexts' =
                    [decryptionContexts EXCEPT ![requestId] =
                        [batchId |-> batchId, stateHash |-> stateHash, processed |-> FALSE]]
             /\ lastDecryptionRequestTime' =
                    [lastDecryptionRequestTime EXCEPT ![sender] = now]
             /\ UNCHANGED <<owner, isProvider, paused, cooldownSeconds, lastSubmissionTime,
                            currentBatchId, isBatchClosed, now, submitted, completed>>
    ELSE UNCHANGED vars

requestBatchSummary(sender, batchId) ==
    requestBatchSummaryWithin(sender, batchId, MaxRequests)

(* Variant: the callback carries whenNotPaused. *)
myCallbackOutcome_WhenNotPaused(requestId, cleartexts, proof) ==
    LET ctx == decryptionContexts[requestId]
        currentHash == _hashCiphertexts(CallbackCiphertexts(ctx.batchId))
    IN  IF paused THEN "PausedError"
        ELSE IF ctx.processed THEN "ReplayError"
        ELSE IF currentHash /= ctx.stateHash THEN "StateMismatchError"
        ELSE IF ~checkSignatures(requestId, cleartexts, proof) THEN "InvalidProof"
        ELSE IF Len(cleartexts) /= 8 THEN "InvalidDecryption"
        ELSE "ok"

(* Variant: the proof is verified before the commitment is compared. *)
myCallbackOutcome_ProofFirst(requestId, cleartexts, proof) ==
    LET ctx == decryptionContexts[requestId]
        currentHash == _hashCiphertexts(CallbackCiphertexts(ctx.batchId))
    IN  IF ctx.processed THEN "ReplayError"
        ELSE IF ~checkSignatures(requestId, cleartexts, proof) THEN "InvalidProof"
        ELSE IF currentHash /= ctx.stateHash THEN "StateMismatchError"
        ELSE IF Len(cleartexts) /= 8 THEN "InvalidDecryption"
        ELSE "ok"

(* Variant: the commitment is not compared. *)
myCallbackOutcome_NoHashCheck(requestId, cleartexts, proof) ==
    LET ctx == decryptionContexts[requestId]
    IN  IF ctx.processed THEN "ReplayError"
        ELSE IF ~checkSignatures(requestId, cleartexts, proof) THEN "InvalidProof"
        ELSE IF Len(cleartexts) /= 8 THEN "InvalidDecryption"
        ELSE "ok"

(* The checks of myCallback in the order of lines 1007, 1024, 1028, 1030.   *)
(* A failing FHE.checkSignatures reverts inside the library; the outcome   *)
(* is named "InvalidProof".                                                *)
myCallbackOutcome(requestId, cleartexts, proof) ==
    LET ctx == decryptionContexts[requestId]
        currentHash == _hashCiphertexts(CallbackCiphertexts(ctx.batchId))
    IN  IF ctx.processed THEN "ReplayError"
        ELSE IF currentHash /= ctx.stateHash THEN "StateMismatchError"
        ELSE IF ~checkSignatures(requestId, cleartexts, proof) THEN "InvalidProof"
        ELSE IF Len(cleartexts) /= 8 THEN "InvalidDecryption"
        ELSE "ok"

(* The event an accepted myCallback emits. *)
myCallbackEvents(requestId, cleartexts, proof) ==
    << <<"DecryptionCompleted", requestId, decryptionContexts[requestId].batchId,
         DecodeUint32(cleartexts, 0), DecodeUint32(cleartexts, 4)>> >>

(* Variant: processed is written before the checks and a failing           *)
(* commitment check returns instead of reverting.                          *)
myCallback_MarksBeforeChecks(requestId, cleartexts, proof) ==
    IF myCallbackOutcome(requestId, cleartexts, proof) \in {"ok", "StateMismatchError"}
    THEN /\ decryptionContexts' = [decryptionContexts EXCEPT ![requestId].processed = TRUE]
         /\ completed' = [completed EXCEPT ![requestId] =
                              IF myCallbackOutcome(requestId, cleartexts, proof) = "ok"
                              THEN @ + 1 ELSE @]
         /\ UNCHANGED <<owner, isProvider, paused, cooldownSeconds, lastSubmissionTime,
                        lastDecryptionRequestTime, currentBatchId, isBatchClosed,
                        now, oracleRequests, submitted>>
    ELSE UNCHANGED vars

myCallback(requestId, cleartexts, proof) ==
    IF myCallbackOutcome(requestId, cleartexts, proof) = "ok"
    THEN /\ decryptionContexts' = [decryptionContexts EXCEPT ![requestId].processed = TRUE]
         /\ completed' = [completed EXCEPT ![requestId] = @ + 1]
         /\ UNCHANGED <<owner, isProvider, paused, cooldownSeconds, lastSubmissionTime,
                        lastDecryptionRequestTime, currentBatchId, isBatchClosed,
                        now, oracleRequests, submitted>>
    ELSE UNCHANGED vars

(* ------------------------------- time ---------------------------------- *)
(* A later block: block.timestamp grows. *)
Tick ==
    /\ now < StartTime + MaxTicks * TickSeconds
    /\ now' = now + TickSeconds
    /\ UNCHANGED <<owner, isProvider, paused, cooldownSeconds, lastSubmissionTime,
                   lastDecryptionRequestTime, currentBatchId, isBatchClosed,
                   decryptionContexts, oracleRequests, submitted, completed>>

Proofs(requestId, cleartexts) == {Sign(requestId, cleartexts), ForgedProof}

Next ==
    \/ \E sender \in Accounts, newOwner \in Accounts : transferOwnership(sender, newOwner)
    \/ \E sender \in Accounts, provider \in Accounts : addProvider(sender, provider)
    \/ \E sender \in Accounts, provider \in Accounts : removeProvider(sender, provider)
    \/ \E sender \in Accounts : pause(sender)
    \/ \E sender \in Accounts : unpause(sender)
    \/ \E sender \in Accounts, c \in CooldownChoices : setCooldownSeconds(sender, c)
    \/ \E sender \in Accounts : openNewBatch(sender)
    \/ \E sender \in Accounts : closeCurrentBatch(sender)
    \/ \E sender \in Accounts, hrs \in Hours : depositTime(sender, hrs)
    \/ \E sender \in Accounts, hrs \in Hours : withdrawTime(sender, hrs)
    \/ \E sender \in Accounts, batchId \in BatchIds : requestBatchSummary(sender, batchId)
    \/ \E requestId \in RequestIds, cleartexts \in Cleartexts :
          \E proof \in Proofs(requestId, cleartexts) : myCallback(requestId, cleartexts, proof)
    \/ Tick

Spec == Init /\ [][Next]_vars

(* ------------------- the ledger with its history ----------------------- *)
(* SpecAudit is Spec with the history variable `submitted` kept: every      *)
(* accepted depositTime / withdrawTime also adds its plaintext amount to    *)
(* the sums of the batch it was accepted for.  The history is bounded by    *)
(* MaxHoursTotal.                                                          *)
RECURSIVE SumHours(_)
SumHours(batches) ==
    IF batches = {} THEN 0
    ELSE LET b == CHOOSE x \in batches : TRUE
         IN  submitted[b].deposited + submitted[b].withdrawn + SumHours(batches \ {b})

TotalHours == SumHours(BatchIds)

depositTimeAudited(sender, hrs) ==
    /\ depositTimeOutcome(sender, hrs) = "ok"
    /\ TotalHours + hrs <= MaxHoursTotal
    /\ recordSubmission(sender)
    /\ submitted' = [submitted EXCEPT ![currentBatchId].deposited = @ + hrs]

withdrawTimeAudited(sender, hrs) ==
    /\ withdrawTimeOutcome(sender, hrs) = "ok"
    /\ TotalHours + hrs <= MaxHoursTotal
    /\ recordSubmission(sender)
    /\ submitted' = [submitted EXCEPT ![currentBatchId].withdrawn = @ + hrs]

NextAudit ==
    \/ \E sender \in Accounts, provider \in Accounts : addProvider(sender, provider)
    \/ \E sender \in Accounts : openNewBatch(sender)
    \/ \E sender \in Accounts : closeCurrentBatch(sender)
    \/ \E sender \in Accounts, hrs \in Hours : depositTimeAudited(sender, hrs)
    \/ \E sender \in Accounts, hrs \in Hours : withdrawTimeAudited(sender, hrs)
    \/ \E sender \in Accounts, batchId \in BatchIds : requestBatchSummary(sender, batchId)
    \/ Tick

SpecAudit == Init /\ [][NextAudit]_vars

(* ------------------- the gap of one disclosure ------------------------- *)
(* SpecGap is Spec within one block: every function of the contract may be *)
(* called, in any order and by any account, while block.timestamp stays.   *)
NextGap ==
    \/ \E sender \in Accounts, newOwner \in Accounts : transferOwnership(sender, newOwner)
    \/ \E sender \in Accounts, provider \in Accounts : addProvider(sender, provider)
    \/ \E sender \in Accounts, provider \in Accounts : removeProvider(sender, provider)
    \/ \E sender \in Accounts : pause(sender)
    \/ \E sender \in Accounts : unpause(sender)
    \/ \E sender \in Accounts, c \in CooldownChoices : setCooldownSeconds(sender, c)
    \/ \E sender \in Accounts : openNewBatch(sender)
    \/ \E sender \in Accounts : closeCurrentBatch(sender)
    \/ \E sender \in Accounts, hrs \in Hours : depositTime(sender, hrs)
    \/ \E sender \in Accounts, hrs \in Hours : withdrawTime(sender, hrs)
    \/ \E sender \in Accounts, batchId \in BatchIds : requestBatchSummary(sender, batchId)
    \/ \E requestId \in RequestIds, cleartexts \in Cleartexts :
          \E proof \in Proofs(requestId, cleartexts) : myCallback(requestId, cleartexts, proof)

SpecGap == Init /\ [][NextGap]_vars

(* SpecRepeat is SpecGap with one more request id in use: the oracle       *)
(* issues every id of RequestIds, so that two requests (made by two        *)
(* providers within one block) can be pending together.                    *)
NextRepeat ==
    \/ \E sender \in Accounts, newOwner \in Accounts : transferOwnership(sender, newOwner)
    \/ \E sender \in Accounts, provider \in Accounts : addProvider(sender, provider)
    \/ \E sender \in Accounts, provider \in Accounts : removeProvider(sender, provider)
    \/ \E sender \in Accounts : pause(sender)
    \/ \E sender \in Accounts : unpause(sender)
    \/ \E sender \in Accounts, c \in CooldownChoices : setCooldownSeconds(sender, c)
    \/ \E sender \in Accounts : openNewBatch(sender)
    \/ \E sender \in Accounts : closeCurrentBatch(sender)
    \/ \E sender \in Accounts, hrs \in Hours : depositTime(sender, hrs)
    \/ \E sender \in Accounts, hrs \in Hours : withdrawTime(sender, hrs)
    \/ \E sender \in Accounts, batchId \in BatchIds :
          requestBatchSummaryWithin(sender, batchId, MaxRequests + 1)
    \/ \E requestId \in RequestIds, cleartexts \in Cleartexts :
          \E proof \in Proofs(requestId, cleartexts) : myCallback(requestId, cleartexts, proof)

SpecRepeat == Init /\ [][NextRepeat]_vars

(* ============================== claims ================================= *)
(* The request ids requestBatchSummary has created so far. *)
CreatedIds == 1..Len(oracleRequests)

EightBytes == {c \in Cleartexts : Len(c) = 8}

(* isOpen(b) of the batch manager: b is current and not marked closed. *)
OpenBatches == {b \in BatchIds : b = currentBatchId /\ ~isBatchClosed[b]}

(* C1: the two ciphertexts a requestBatchSummary(b) submitted to the oracle  *)
(* decrypt to the sum of the amounts deposited into b and the sum of the   *)
(* amounts withdrawn from b (the sums stay far below 2^32 here).           *)
C1_SubmittedSumsMatch ==
    \A r \in CreatedIds :
        LET b == decryptionContexts[r].batchId
        IN  /\ Plaintext(oracleRequests[r][1]) = submitted[b].deposited
            /\ Plaintext(oracleRequests[r][2]) = submitted[b].withdrawn

(* C2: for a created request that no callback has completed yet, a         *)
(* callback with a genuine proof and an 8-byte cleartext is accepted.      *)
C2_FirstValidCallbackAccepted ==
    \A r \in CreatedIds : \A c \in EightBytes :
        (~decryptionContexts[r].processed /\ completed[r] = 0)
            => myCallbackOutcome(r, c, Sign(r, c)) = "ok"

(* C4: a callback for an unprocessed request whose recomputed commitment   *)
(* differs from the stored one reverts with StateMismatchError, whatever   *)
(* its cleartext and proof (a genuine proof and 8 bytes included); the     *)
(* revert leaves the request unprocessed and emits nothing.                *)
C4_MismatchRejected ==
    \A r \in RequestIds : \A c \in Cleartexts : \A p \in Proofs(r, c) :
        LET ctx == decryptionContexts[r]
        IN  ( /\ ~ctx.processed
              /\ _hashCiphertexts(CallbackCiphertexts(ctx.batchId)) /= ctx.stateHash )
            => myCallbackOutcome(r, c, p) = "StateMismatchError"

C4_Witness ==
    \E r \in CreatedIds : \E c \in EightBytes :
        /\ ~decryptionContexts[r].processed
        /\ isBatchClosed[decryptionContexts[r].batchId]
        /\ decryptionContexts[r].stateHash /= ZeroHash
        /\ _hashCiphertexts(CallbackCiphertexts(decryptionContexts[r].batchId))
               /= decryptionContexts[r].stateHash
        /\ myCallbackOutcome(r, c, Sign(r, c)) = "StateMismatchError"

(* C5: while the current batch is marked closed, every depositTime and     *)
(* withdrawTime of a provider that passes the pause and cooldown checks    *)
(* reverts with BatchClosedError; a deposit or withdrawal is accepted only *)
(* when the current batch is not marked closed.                            *)
C5_ClosedBatchRejects ==
    \A a \in Accounts : \A h \in Hours :
        /\ ( /\ isBatchClosed[currentBatchId]
             /\ onlyProvider(a) = "ok"
             /\ whenNotPaused = "ok"
             /\ checkCooldown(a, lastSubmissionTime) = "ok" )
           => ( /\ depositTimeOutcome(a, h) = "BatchClosedError"
                /\ withdrawTimeOutcome(a, h) = "BatchClosedError" )
        /\ (depositTimeOutcome(a, h) = "ok" => ~isBatchClosed[currentBatchId])
        /\ (withdrawTimeOutcome(a, h) = "ok" => ~isBatchClosed[currentBatchId])

C5_Witness ==
    \E a \in Accounts : \E h \in Hours :
        /\ isBatchClosed[currentBatchId]
        /\ lastSubmissionTime[a] > 0
        /\ depositTimeOutcome(a, h) = "BatchClosedError"
        /\ withdrawTimeOutcome(a, h) = "BatchClosedError"

(* C6: for a provider, when not paused: if the account's last accepted      *)
(* action of a class was at time t, an action of that class at a time      *)
(* before t + cooldownSeconds reverts with CooldownActive, and at a time   *)
(* from t + cooldownSeconds on it does not.  depositTime and withdrawTime  *)
(* share lastSubmissionTime, requestBatchSummary uses                      *)
(* lastDecryptionRequestTime.  With cooldownSeconds unchanged since the    *)
(* action at t was accepted, cooldownSeconds <= t and t + cooldownSeconds  *)
(* cannot overflow; the formula covers every state where it does not.      *)
C6_CooldownDecides ==
    \A a \in Accounts :
        (isProvider[a] /\ ~paused) =>
            /\ lastSubmissionTime[a] + cooldownSeconds <= UintMax =>
                 \A h \in Hours :
                    LET active == now < lastSubmissionTime[a] + cooldownSeconds
                    IN  /\ (depositTimeOutcome(a, h) = "CooldownActive") <=> active
                        /\ (withdrawTimeOutcome(a, h) = "CooldownActive") <=> active
            /\ lastDecryptionRequestTime[a] + cooldownSeconds <= UintMax =>
                 \A b \in BatchIds :
                    LET active == now < lastDecryptionRequestTime[a] + cooldownSeconds
                    IN  (requestBatchSummaryOutcome(a, b) = "CooldownActive") <=> active

(* A provider whose disclosure request is still in its cooldown while the  *)
(* cooldown of its earlier submission has just elapsed.                    *)
C6_Witness ==
    \E a \in Accounts : \E h \in Hours : \E b \in BatchIds :
        /\ isProvider[a] /\ ~paused /\ cooldownSeconds > 0
        /\ lastSubmissionTime[a] > 0
        /\ now = lastSubmissionTime[a] + cooldownSeconds
        /\ withdrawTimeOutcome(a, h) /= "CooldownActive"
        /\ lastDecryptionRequestTime[a] > 0
        /\ now < lastDecryptionRequestTime[a] + cooldownSeconds
        /\ requestBatchSummaryOutcome(a, b) = "CooldownActive"

(* C7: for an account that is not a provider, depositTime, withdrawTime    *)
(* and requestBatchSummary revert with NotProvider in every state and for  *)
(* every argument (the revert leaves the storage unchanged and emits no    *)
(* event).                                                                 *)
C7_NonProviderRejected ==
    \A a \in Accounts :
        ~isProvider[a] =>
            /\ \A h \in Hours : /\ depositTimeOutcome(a, h) = "NotProvider"
                                /\ withdrawTimeOutcome(a, h) = "NotProvider"
            /\ \A b \in BatchIds : requestBatchSummaryOutcome(a, b) = "NotProvider"

(* A former provider, still in its cooldown, with the system paused and    *)
(* the current batch closed.                                               *)
C7_Witness ==
    \E a \in Accounts : \E h \in Hours :
        /\ ~isProvider[a]
        /\ paused
        /\ isBatchClosed[currentBatchId]
        /\ lastSubmissionTime[a] > 0
        /\ now < lastSubmissionTime[a] + cooldownSeconds
        /\ withdrawTimeOutcome(a, h) = "NotProvider"

(* C8: requestBatchSummary(b) of a provider passing the pause and cooldown *)
(* checks reverts with "Batch not closed" for every b not marked closed.   *)
C8_NotClosedRejected ==
    \A a \in Accounts : \A b \in BatchIds :
        ( /\ onlyProvider(a) = "ok"
          /\ whenNotPaused = "ok"
          /\ checkCooldown(a, lastDecryptionRequestTime) = "ok"
          /\ ~isBatchClosed[b] )
        => requestBatchSummaryOutcome(a, b) = "Batch not closed"

(* Batch 1 was never closed, batch 2 is the open current batch. *)
C8_Witness ==
    \E a \in Accounts :
        /\ currentBatchId = 2
        /\ ~isBatchClosed[1]
        /\ \A b \in {0, 1, 2, 3} : requestBatchSummaryOutcome(a, b) = "Batch not closed"

(* C9 as stated: exactly one batch is Open in every reachable state. *)
C9_ExactlyOneOpen == Cardinality(OpenBatches) = 1

(* C9 amended: one batch is Open initially; a step that changes            *)
(* currentBatchId leaves exactly the new current batch Open; a step that   *)
(* marks a batch closed leaves no batch Open; never more than one.         *)
C9_AtMostOneOpen ==
    /\ Cardinality(OpenBatches) = 1
    /\ [][ /\ (currentBatchId' /= currentBatchId => OpenBatches' = {currentBatchId'})
           /\ (isBatchClosed' /= isBatchClosed => OpenBatches' = {})
           /\ Cardinality(OpenBatches') <= 1 ]_vars

C9_Witness ==
    /\ currentBatchId = 2
    /\ isBatchClosed[1]
    /\ isBatchClosed[2]
    /\ OpenBatches = {}

(* C10: currentBatchId starts at 1, changes only by +1 and only in an      *)
(* accepted openNewBatch, and a batch id marked closed stays closed.       *)
C10_BatchesAppendOnly ==
    /\ currentBatchId = 1
    /\ [][ /\ (currentBatchId' /= currentBatchId =>
                 /\ currentBatchId' = currentBatchId + 1
                 /\ \E sender \in Accounts :
                        openNewBatchOutcome(sender) = "ok" /\ openNewBatch(sender))
           /\ \A b \in BatchIds : isBatchClosed[b] => isBatchClosed'[b] ]_vars

C10_Witness ==
    /\ currentBatchId = 2
    /\ isBatchClosed[1]
    /\ isBatchClosed[2]
    /\ \E r \in CreatedIds : decryptionContexts[r].batchId = 1

(* C11: for a caller that is not the current owner, each of                *)
(* transferOwnership, addProvider, removeProvider, pause, unpause,         *)
(* setCooldownSeconds, openNewBatch and closeCurrentBatch reverts with     *)
(* NotOwner in every state and for every argument, and the call cannot     *)
(* change anything: the revert discards the events and the writes, so      *)
(* owner, the provider set, paused, cooldownSeconds, currentBatchId and    *)
(* the closed set are as before.                                           *)
C11_NonOwnerRejected ==
    []( \A a \in Accounts :
            a /= owner =>
                /\ \A x \in Accounts :
                      /\ transferOwnershipOutcome(a, x) = "NotOwner"
                      /\ ~ENABLED (transferOwnership(a, x) /\ vars' /= vars)
                      /\ addProviderOutcome(a, x) = "NotOwner"
                      /\ ~ENABLED (addProvider(a, x) /\ vars' /= vars)
                      /\ removeProviderOutcome(a, x) = "NotOwner"
                      /\ ~ENABLED (removeProvider(a, x) /\ vars' /= vars)
                /\ \A c \in CooldownChoices :
                      /\ setCooldownSecondsOutcome(a, c) = "NotOwner"
                      /\ ~ENABLED (setCooldownSeconds(a, c) /\ vars' /= vars)
                /\ pauseOutcome(a) = "NotOwner"
                /\ ~ENABLED (pause(a) /\ vars' /= vars)
                /\ unpauseOutcome(a) = "NotOwner"
                /\ ~ENABLED (unpause(a) /\ vars' /= vars)
                /\ openNewBatchOutcome(a) = "NotOwner"
                /\ ~ENABLED (openNewBatch(a) /\ vars' /= vars)
                /\ closeCurrentBatchOutcome(a) = "NotOwner"
                /\ ~ENABLED (closeCurrentBatch(a) /\ vars' /= vars) )

(* The deployer handed the ownership over, is still a provider, and the    *)
(* system is paused: its pause and unpause are refused as NotOwner.        *)
C11_Witness ==
    /\ owner /= Deployer
    /\ isProvider[Deployer]
    /\ paused
    /\ isBatchClosed[currentBatchId]
    /\ pauseOutcome(Deployer) = "NotOwner"
    /\ unpauseOutcome(Deployer) = "NotOwner"
    /\ closeCurrentBatchOutcome(Deployer) = "NotOwner"

(* C12: while paused, depositTime, withdrawTime and requestBatchSummary of *)
(* a provider revert with PausedError for every argument, whatever the     *)
(* cooldown timestamps, cooldownSeconds and the batch flags are, and the   *)
(* call cannot change anything; while not paused the outcome of these      *)
(* calls is the first failing one of the cooldown check and the batch      *)
(* check, never PausedError.                                               *)
C12_PausedRejects ==
    \A a \in Accounts :
        isProvider[a] =>
            /\ paused =>
                 /\ \A h \in Hours :
                       /\ depositTimeOutcome(a, h) = "PausedError"
                       /\ ~ENABLED (depositTime(a, h) /\ vars' /= vars)
                       /\ withdrawTimeOutcome(a, h) = "PausedError"
                       /\ ~ENABLED (withdrawTime(a, h) /\ vars' /= vars)
                 /\ \A b \in BatchIds :
                       /\ requestBatchSummaryOutcome(a, b) = "PausedError"
                       /\ ~ENABLED (requestBatchSummary(a, b) /\ vars' /= vars)
            /\ ~paused =>
                 LET submissionChecks ==
                         FirstRevert(<<checkCooldown(a, lastSubmissionTime),
                                       IF isBatchClosed[currentBatchId]
                                       THEN "BatchClosedError" ELSE "ok">>)
                 IN  /\ submissionChecks /= "PausedError"
                     /\ \A h \in Hours :
                            /\ depositTimeOutcome(a, h) = submissionChecks
                            /\ withdrawTimeOutcome(a, h) = submissionChecks
                     /\ \A b \in BatchIds :
                            requestBatchSummaryOutcome(a, b) =
                                FirstRevert(<<checkCooldown(a, lastDecryptionRequestTime),
                                              IF ~isBatchClosed[b]
                                              THEN "Batch not closed" ELSE "ok">>)

(* Paused right after an accepted submission and an accepted request of a  *)
(* provider, with the current batch closed: both cooldowns are active and  *)
(* the batch check of depositTime would fail too.                          *)
C12_Witness ==
    \E a \in Accounts : \E h \in Hours :
        /\ paused
        /\ isProvider[a]
        /\ isBatchClosed[currentBatchId]
        /\ lastSubmissionTime[a] > 0
        /\ now < lastSubmissionTime[a] + cooldownSeconds
        /\ lastDecryptionRequestTime[a] > 0
        /\ now < lastDecryptionRequestTime[a] + cooldownSeconds
        /\ depositTimeOutcome(a, h) = "PausedError"
        /\ withdrawTimeOutcome(a, h) = "PausedError"
        /\ requestBatchSummaryOutcome(a, currentBatchId) = "PausedError"

(* C13: addProvider(p) by the owner when p is a provider, and              *)
(* removeProvider(p) when p is not, change nothing and emit no event;      *)
(* otherwise the call emits exactly one event (ProviderAdded(p) or         *)
(* ProviderRemoved(p)), flips the membership of p and changes nothing      *)
(* else.  After an accepted addProvider(p), p is a provider, and after an  *)
(* accepted removeProvider(p) it is not, so the same call applied again    *)
(* is the no-op: twice gives the state of once.                            *)
C13_ProviderIdempotent ==
    []( \A p \in Accounts :
            /\ isProvider[p] =>
                 /\ addProviderEvents(owner, p) = <<>>
                 /\ ~ENABLED (addProvider(owner, p) /\ vars' /= vars)
                 /\ removeProviderEvents(owner, p) = << <<"ProviderRemoved", p>> >>
            /\ ~isProvider[p] =>
                 /\ removeProviderEvents(owner, p) = <<>>
                 /\ ~ENABLED (removeProvider(owner, p) /\ vars' /= vars)
                 /\ addProviderEvents(owner, p) = << <<"ProviderAdded", p>> >>
            /\ ~ENABLED ( /\ addProvider(owner, p)
                          /\ ~ ( /\ isProvider' = [isProvider EXCEPT ![p] = TRUE]
                                 /\ UNCHANGED <<owner, paused, cooldownSeconds,
                                                lastSubmissionTime, lastDecryptionRequestTime,
                                                currentBatchId, isBatchClosed,
                                                decryptionContexts>> ) )
            /\ ~ENABLED ( /\ removeProvider(owner, p)
                          /\ ~ ( /\ isProvider' = [isProvider EXCEPT ![p] = FALSE]
                                 /\ UNCHANGED <<owner, paused, cooldownSeconds,
                                                lastSubmissionTime, lastDecryptionRequestTime,
                                                currentBatchId, isBatchClosed,
                                                decryptionContexts>> ) ) )

(* alice was added and the deployer, still the owner, removed itself: a    *)
(* further addProvider(alice) or removeProvider(deployer) is the no-op.    *)
C13_Witness ==
    /\ owner = Deployer
    /\ isProvider["alice"]
    /\ ~isProvider[Deployer]
    /\ addProviderEvents(owner, "alice") = <<>>
    /\ removeProviderEvents(owner, Deployer) = <<>>

(* C15: a myCallback that reverts with StateMismatchError, InvalidProof or *)
(* InvalidDecryption cannot change anything.  In every state each created *)
(* request still holds the commitment of the array that was submitted for  *)
(* it and is processed exactly when its DecryptionCompleted was emitted.   *)
C15_RejectedCallbackNoEffect ==
    []( /\ \A r \in RequestIds : \A c \in Cleartexts : \A p \in Proofs(r, c) :
              myCallbackOutcome(r, c, p) \in
                    {"StateMismatchError", "InvalidProof", "InvalidDecryption"}
              => ~ENABLED (myCallback(r, c, p) /\ vars' /= vars)
        /\ \A r \in CreatedIds :
              /\ decryptionContexts[r].stateHash = _hashCiphertexts(oracleRequests[r])
              /\ decryptionContexts[r].processed <=> completed[r] > 0 )

(* A pending request whose callback arrives in a later block with a        *)
(* genuine proof and 8 bytes and is rejected: the record is as stored.     *)
C15_Witness ==
    \E r \in CreatedIds : \E c \in EightBytes : \E a \in Accounts :
        /\ lastDecryptionRequestTime[a] > 0
        /\ lastDecryptionRequestTime[a] < now
        /\ myCallbackOutcome(r, c, Sign(r, c)) = "StateMismatchError"
        /\ ~decryptionContexts[r].processed
        /\ completed[r] = 0
        /\ decryptionContexts[r].stateHash = _hashCiphertexts(oracleRequests[r])

(* The errors a provider or administrative call is rejected with. *)
Rejections == {"NotProvider", "NotOwner", "PausedError", "BatchClosedError",
               "Batch not closed", "CooldownActive"}

(* C17: a provider or administrative call that reverts with NotProvider,   *)
(* NotOwner, PausedError, BatchClosedError, "Batch not closed" or          *)
(* CooldownActive cannot change anything.  A step that changes             *)
(* lastSubmissionTime[a] is an accepted depositTime or withdrawTime of a,  *)
(* a step that changes lastDecryptionRequestTime[a] is an accepted         *)
(* requestBatchSummary of a, and the new value is block.timestamp.         *)
C17_RejectedCallsNoEffect ==
    /\ [](\A a \in Accounts :
            /\ \A h \in Hours :
                  /\ depositTimeOutcome(a, h) \in Rejections
                       => ~ENABLED (depositTime(a, h) /\ vars' /= vars)
                  /\ withdrawTimeOutcome(a, h) \in Rejections
                       => ~ENABLED (withdrawTime(a, h) /\ vars' /= vars)
            /\ \A b \in BatchIds :
                  requestBatchSummaryOutcome(a, b) \in Rejections
                       => ~ENABLED (requestBatchSummary(a, b) /\ vars' /= vars)
            /\ \A x \in Accounts :
                  /\ transferOwnershipOutcome(a, x) \in Rejections
                       => ~ENABLED (transferOwnership(a, x) /\ vars' /= vars)
                  /\ addProviderOutcome(a, x) \in Rejections
                       => ~ENABLED (addProvider(a, x) /\ vars' /= vars)
                  /\ removeProviderOutcome(a, x) \in Rejections
                       => ~ENABLED (removeProvider(a, x) /\ vars' /= vars)
            /\ \A c \in CooldownChoices :
                  setCooldownSecondsOutcome(a, c) \in Rejections
                       => ~ENABLED (setCooldownSeconds(a, c) /\ vars' /= vars)
            /\ pauseOutcome(a) \in Rejections => ~ENABLED (pause(a) /\ vars' /= vars)
            /\ unpauseOutcome(a) \in Rejections => ~ENABLED (unpause(a) /\ vars' /= vars)
            /\ openNewBatchOutcome(a) \in Rejections
                       => ~ENABLED (openNewBatch(a) /\ vars' /= vars)
            /\ closeCurrentBatchOutcome(a) \in Rejections
                       => ~ENABLED (closeCurrentBatch(a) /\ vars' /= vars))
    /\ [][ \A a \in Accounts :
             /\ lastSubmissionTime'[a] /= lastSubmissionTime[a] =>
                  /\ lastSubmissionTime'[a] = now
                  /\ \E h \in Hours :
                        \/ depositTimeOutcome(a, h) = "ok" /\ depositTime(a, h)
                        \/ withdrawTimeOutcome(a, h) = "ok" /\ withdrawTime(a, h)
             /\ lastDecryptionRequestTime'[a] /= lastDecryptionRequestTime[a] =>
                  /\ lastDecryptionRequestTime'[a] = now
                  /\ \E b \in BatchIds :
                        requestBatchSummaryOutcome(a, b) = "ok" /\ requestBatchSummary(a, b)
           ]_vars

(* An account requested a summary in the first block and submitted in a    *)
(* later one: its next submission is refused as CooldownActive, its next   *)
(* request is decided by the older timestamp.                              *)
C17_Witness ==
    \E a \in Accounts : \E h \in Hours :
        /\ lastDecryptionRequestTime[a] = StartTime
        /\ now > StartTime
        /\ lastSubmissionTime[a] = now
        /\ depositTimeOutcome(a, h) = "CooldownActive"
        /\ withdrawTimeOutcome(a, h) = "CooldownActive"
        /\ \A b \in BatchIds : requestBatchSummaryOutcome(a, b) /= "CooldownActive"

(* C18: for a created, unprocessed request on a closed batch, the array    *)
(* myCallback rebuilds equals, element by element, the array               *)
(* requestBatchSummary submitted and hashed, and the commitment recomputed *)
(* from it equals the stored one.  (No function writes a batch's totals,   *)
(* so no operation touches the batch between request and callback.)        *)
C18_RebuiltArrayMatches ==
    \A r \in CreatedIds :
        LET ctx == decryptionContexts[r]
            rebuilt == CallbackCiphertexts(ctx.batchId)
        IN  (~ctx.processed /\ isBatchClosed[ctx.batchId]) =>
                /\ Len(rebuilt) = Len(oracleRequests[r])
                /\ \A i \in 1..Len(rebuilt) : rebuilt[i] = oracleRequests[r][i]
                /\ _hashCiphertexts(rebuilt) = ctx.stateHash

C20_ChecksInOrder ==
    []( \A r \in RequestIds : \A c \in Cleartexts : \A p \in Proofs(r, c) :
            LET ctx == decryptionContexts[r]
                replay == ctx.processed
                mismatch == _hashCiphertexts(CallbackCiphertexts(ctx.batchId)) /= ctx.stateHash
                badProof == ~checkSignatures(r, c, p)
                badLength == Len(c) /= 8
            IN  /\ replay => myCallbackOutcome(r, c, p) = "ReplayError"
                /\ (~replay /\ mismatch) => myCallbackOutcome(r, c, p) = "StateMismatchError"
                /\ (~replay /\ ~mismatch /\ badProof)
                      => myCallbackOutcome(r, c, p) = "InvalidProof"
                /\ (~replay /\ ~mismatch /\ ~badProof /\ badLength)
                      => myCallbackOutcome(r, c, p) = "InvalidDecryption"
                /\ (replay \/ mismatch \/ badProof \/ badLength)
                      => ~ENABLED (myCallback(r, c, p) /\ decryptionContexts' /= decryptionContexts) )

(* A pending request and a callback that fails the commitment, the proof   *)
(* and the length check at once: the commitment failure is reported.       *)
C20_Witness ==
    \E r \in CreatedIds : \E c \in Cleartexts :
        /\ ~decryptionContexts[r].processed
        /\ _hashCiphertexts(CallbackCiphertexts(decryptionContexts[r].batchId))
               /= decryptionContexts[r].stateHash
        /\ ~checkSignatures(r, c, ForgedProof)
        /\ Len(c) /= 8
        /\ myCallbackOutcome(r, c, ForgedProof) = "StateMismatchError"

(* C21: the outcome of myCallback(r, c, p) is the same in two states that  *)
(* differ only in the paused flag, in the owner or in the provider set     *)
(* (the roles any caller can have), and the stored request records are     *)
(* the same in both, so the callback leaves the same request state: the    *)
(* function reads neither msg.sender nor paused.  The states before and    *)
(* after a pause, unpause, transferOwnership, addProvider or               *)
(* removeProvider step are two such states.                                *)
C21_CallbackIgnoresCallerAndPause ==
    [][ (paused' /= paused \/ owner' /= owner \/ isProvider' /= isProvider) =>
          /\ decryptionContexts' = decryptionContexts
          /\ \A r \in RequestIds : \A c \in Cleartexts : \A p \in Proofs(r, c) :
                myCallbackOutcome(r, c, p)' = myCallbackOutcome(r, c, p) ]_vars

(* A pending request while the system is paused, the owner is not a        *)
(* provider and the only provider is not the owner.                        *)
C21_Witness ==
    \E r \in CreatedIds : \E c \in Cleartexts :
        /\ ~decryptionContexts[r].processed
        /\ paused
        /\ ~isProvider[owner]
        /\ isProvider[Deployer]
        /\ ~isProvider["alice"]
        /\ myCallbackOutcome(r, c, Sign(r, c)) = "StateMismatchError"
        /\ myCallbackOutcome(r, c, ForgedProof) = "StateMismatchError"

(* C22: the submission cooldown and the disclosure cooldown are kept per   *)
(* account and per class.  A step that changes the submission timestamps   *)
(* sets the entry of one account to now and leaves the disclosure          *)
(* timestamps alone; a step that changes the disclosure timestamps sets    *)
(* the entry of one account to now and leaves the submission timestamps    *)
(* alone.  CooldownActive on a submission is decided by the submission     *)
(* timestamp of the caller alone, CooldownActive on a disclosure request   *)
(* by the disclosure timestamp of the caller alone.                        *)
C22_CooldownClassesIndependent ==
    /\ [](\A a \in Accounts :
            /\ \A h \in Hours :
                  /\ depositTimeOutcome(a, h) = "CooldownActive"
                        => now < lastSubmissionTime[a] + cooldownSeconds
                  /\ withdrawTimeOutcome(a, h) = "CooldownActive"
                        => now < lastSubmissionTime[a] + cooldownSeconds
            /\ \A b \in BatchIds :
                  requestBatchSummaryOutcome(a, b) = "CooldownActive"
                        => now < lastDecryptionRequestTime[a] + cooldownSeconds)
    /\ [][ /\ lastSubmissionTime' /= lastSubmissionTime =>
                /\ lastDecryptionRequestTime' = lastDecryptionRequestTime
                /\ \E a \in Accounts :
                      lastSubmissionTime' = [lastSubmissionTime EXCEPT ![a] = now]
           /\ lastDecryptionRequestTime' /= lastDecryptionRequestTime =>
                /\ lastSubmissionTime' = lastSubmissionTime
                /\ \E a \in Accounts :
                      lastDecryptionRequestTime' =
                          [lastDecryptionRequestTime EXCEPT ![a] = now] ]_vars

(* An account that submitted earlier and has just requested a disclosure:  *)
(* a further request is in cooldown while a submission is accepted; the    *)
(* other account has no timestamp of either class.                         *)
C22_Witness ==
    \E a \in Accounts : \E b \in BatchIds : \E h \in Hours :
        /\ lastSubmissionTime[a] > 0
        /\ lastSubmissionTime[a] < now
        /\ lastDecryptionRequestTime[a] = now
        /\ requestBatchSummaryOutcome(a, b) = "CooldownActive"
        /\ depositTimeOutcome(a, h) = "ok"
        /\ \A o \in Accounts \ {a} :
              lastSubmissionTime[o] = 0 /\ lastDecryptionRequestTime[o] = 0

(* C23: the rate-limit check has exactly two outcomes for every account    *)
(* and both cooldown classes: CooldownActive when                          *)
(* now < lastRecorded + cooldownSeconds, pass otherwise.  The code         *)
(* violates it: the sum is checked arithmetic and setCooldownSeconds       *)
(* accepts every value, so the check can revert with Panic.                *)
C23_CooldownTwoOutcomes ==
    \A a \in Accounts :
        /\ checkCooldown(a, lastSubmissionTime) =
              IF now < lastSubmissionTime[a] + cooldownSeconds
              THEN "CooldownActive" ELSE "ok"
        /\ checkCooldown(a, lastDecryptionRequestTime) =
              IF now < lastDecryptionRequestTime[a] + cooldownSeconds
              THEN "CooldownActive" ELSE "ok"

(* C24: exactly one account passes onlyOwner.  A transferOwnership(x) by   *)
(* the owner is accepted and can only end in a state where the owner is x, *)
(* the provider set, the paused flag, cooldownSeconds, the cooldown        *)
(* timestamps, the batches and the request records are as before, and,     *)
(* when x is another account, every owner-only function called by the      *)
(* previous owner reverts with NotOwner.                                   *)
C24_OwnershipTransfer ==
    []( /\ Cardinality({a \in Accounts : onlyOwner(a) = "ok"}) = 1
        /\ \A prev \in Accounts : \A x \in Accounts :
              prev = owner =>
                /\ transferOwnershipOutcome(prev, x) = "ok"
                /\ ENABLED (transferOwnership(prev, x) /\ owner' = x)
                /\ ~ENABLED
                     (/\ transferOwnership(prev, x)
                      /\ ~(/\ owner' = x
                           /\ UNCHANGED <<isProvider, paused, cooldownSeconds,
                                          lastSubmissionTime, lastDecryptionRequestTime,
                                          currentBatchId, isBatchClosed,
                                          decryptionContexts, oracleRequests>>
                           /\ x /= prev =>
                                /\ \A y \in Accounts :
                                      /\ transferOwnershipOutcome(prev, y)' = "NotOwner"
                                      /\ addProviderOutcome(prev, y)' = "NotOwner"
                                      /\ removeProviderOutcome(prev, y)' = "NotOwner"
                                /\ \A cd \in CooldownChoices :
                                      setCooldownSecondsOutcome(prev, cd)' = "NotOwner"
                                /\ pauseOutcome(prev)' = "NotOwner"
                                /\ unpauseOutcome(prev)' = "NotOwner"
                                /\ openNewBatchOutcome(prev)' = "NotOwner"
                                /\ closeCurrentBatchOutcome(prev)' = "NotOwner")) )

(* The ownership went to an account that is not a provider; the deployer   *)
(* is still a provider and is refused by the owner-only functions, the new *)
(* owner is accepted.                                                      *)
C24_Witness ==
    /\ owner = "alice"
    /\ ~isProvider["alice"]
    /\ isProvider[Deployer]
    /\ ~paused
    /\ transferOwnershipOutcome(Deployer, Deployer) = "NotOwner"
    /\ openNewBatchOutcome(Deployer) = "NotOwner"
    /\ transferOwnershipOutcome("alice", Deployer) = "ok"

(* C25: every batch id below currentBatchId is marked closed.  The code    *)
(* violates it: openNewBatch does not require the current batch to be      *)
(* closed and does not close it.                                           *)
C25_PastBatchesClosed ==
    \A b \in 1..(currentBatchId - 1) : isBatchClosed[b]

(* C26: every request record that requestBatchSummary stored references a  *)
(* batch id in 1..currentBatchId that is marked closed, and every batch id *)
(* marked closed lies in 1..currentBatchId.                                *)
C26_RequestsReferenceClosedBatches ==
    /\ \A r \in CreatedIds :
          /\ decryptionContexts[r].batchId \in 1..currentBatchId
          /\ isBatchClosed[decryptionContexts[r].batchId]
    /\ {b \in BatchIds : isBatchClosed[b]} \subseteq 1..currentBatchId

(* A request for the closed current batch 2, while batch 1 was left open:  *)
(* the closed set is a proper subset of the ids in use.                    *)
C26_Witness ==
    /\ currentBatchId = 2
    /\ ~isBatchClosed[1]
    /\ isBatchClosed[2]
    /\ \E r \in CreatedIds :
          /\ decryptionContexts[r].batchId = 2
          /\ decryptionContexts[r].stateHash /= ZeroHash

(* C27: an accepted requestBatchSummary(b) by a hands the oracle exactly   *)
(* one new request whose array has two elements, stores under the id the   *)
(* oracle returned the record {b, hash of that array and of the contract   *)
(* address, processed = false}, emits one DecryptionRequested(id, b)       *)
(* event, sets lastDecryptionRequestTime[a] to now, and leaves             *)
(* currentBatchId, the closed flags, every other request record, every     *)
(* earlier oracle request and all other storage unchanged.                 *)
C27_RequestEffects ==
    [](\A a \in Accounts : \A b \in BatchIds :
          (requestBatchSummaryOutcome(a, b) = "ok" /\ Len(oracleRequests) < MaxRequests) =>
            /\ requestBatchSummaryEvents(a, b) = << <<"DecryptionRequested", NextRequestId, b>> >>
            /\ ENABLED (requestBatchSummary(a, b) /\ oracleRequests' /= oracleRequests)
            /\ ~ENABLED
                 (/\ requestBatchSummary(a, b)
                  /\ ~(/\ Len(oracleRequests') = Len(oracleRequests) + 1
                       /\ \A i \in 1..Len(oracleRequests) :
                             oracleRequests'[i] = oracleRequests[i]
                       /\ Len(oracleRequests'[NextRequestId]) = 2
                       /\ decryptionContexts'[NextRequestId] =
                             [batchId |-> b,
                              stateHash |-> <<oracleRequests'[NextRequestId], ThisContract>>,
                              processed |-> FALSE]
                       /\ \A r \in RequestIds \ {NextRequestId} :
                             decryptionContexts'[r] = decryptionContexts[r]
                       /\ lastDecryptionRequestTime' =
                             [lastDecryptionRequestTime EXCEPT ![a] = now]
                       /\ UNCHANGED <<owner, isProvider, paused, cooldownSeconds,
                                      lastSubmissionTime, currentBatchId, isBatchClosed,
                                      now, completed>>)) )

(* A request has just been accepted for the closed batch 1: its record is  *)
(* stored, unprocessed, under the oracle's id and the requester carries    *)
(* the disclosure timestamp of this block and no submission timestamp.     *)
C27_Witness ==
    \E a \in Accounts : \E r \in CreatedIds :
        /\ Len(oracleRequests[r]) = 2
        /\ decryptionContexts[r] =
              [batchId |-> 1, stateHash |-> _hashCiphertexts(oracleRequests[r]),
               processed |-> FALSE]
        /\ lastDecryptionRequestTime[a] = now
        /\ lastSubmissionTime[a] = 0
        /\ requestBatchSummaryOutcome(a, 1) = "CooldownActive"

(* C28: an accepted openNewBatch can only end in a state where             *)
(* currentBatchId is one higher and not marked closed, whatever the flags  *)
(* were, so that in that state depositTime and withdrawTime of every       *)
(* provider that passes whenNotPaused and the cooldown check are accepted  *)
(* and their events carry the new currentBatchId.  In every state the      *)
(* event of an accepted depositTime or withdrawTime carries the            *)
(* currentBatchId of that state, which is not marked closed.               *)
C28_NewBatchIsOpen ==
    []( /\ \A o \in Accounts :
              (openNewBatchOutcome(o) = "ok" /\ currentBatchId < MaxBatch) =>
                /\ ENABLED (openNewBatch(o) /\ currentBatchId' /= currentBatchId)
                /\ ~ENABLED
                     (/\ openNewBatch(o)
                      /\ ~(/\ currentBatchId' = currentBatchId + 1
                           /\ ~isBatchClosed'[currentBatchId']
                           /\ \A a \in Accounts : \A h \in Hours :
                                 (/\ onlyProvider(a)' = "ok"
                                  /\ whenNotPaused' = "ok"
                                  /\ checkCooldown(a, lastSubmissionTime)' = "ok") =>
                                    /\ depositTimeOutcome(a, h)' = "ok"
                                    /\ withdrawTimeOutcome(a, h)' = "ok"
                                    /\ depositTimeEvents(a, h)'[1][3] = currentBatchId'
                                    /\ withdrawTimeEvents(a, h)'[1][3] = currentBatchId'))
        /\ \A a \in Accounts : \A h \in Hours :
              /\ depositTimeOutcome(a, h) = "ok" =>
                    /\ depositTimeEvents(a, h)[1][3] = currentBatchId
                    /\ currentBatchId \in OpenBatches
              /\ withdrawTimeOutcome(a, h) = "ok" =>
                    /\ withdrawTimeEvents(a, h)[1][3] = currentBatchId
                    /\ currentBatchId \in OpenBatches )

(* Batch 1 was closed and batch 2 opened after it: a provider that         *)
(* submitted to batch 1 a cooldown ago is accepted again, for batch 2.     *)
C28_Witness ==
    \E a \in Accounts : \E h \in Hours :
        /\ currentBatchId = 2
        /\ isBatchClosed[1]
        /\ ~isBatchClosed[2]
        /\ lastSubmissionTime[a] > 0
        /\ depositTimeOutcome(a, h) = "ok"
        /\ withdrawTimeOutcome(a, h) = "ok"
        /\ depositTimeEvents(a, h)[1][3] = 2

(* C29: for a request id that requestBatchSummary never stored, the record *)
(* is the default one, and myCallback reverts with StateMismatchError for  *)
(* every cleartext and every proof, genuine or forged: no step it can take *)
(* changes anything, so no DecryptionCompleted event is emitted and no     *)
(* record is created or marked processed.                                  *)
C29_UnknownRequestRejected ==
    [](\A r \in RequestIds \ CreatedIds :
          /\ decryptionContexts[r] = EmptyContext
          /\ completed[r] = 0
          /\ \A c \in Cleartexts : \A p \in Proofs(r, c) :
                /\ myCallbackOutcome(r, c, p) = "StateMismatchError"
                /\ ~ENABLED (myCallback(r, c, p) /\ vars' /= vars))

(* One request exists and another id was never created: a callback for    *)
(* the unknown id with an 8-byte cleartext and a genuine proof.            *)
C29_Witness ==
    \E r \in RequestIds \ CreatedIds : \E c \in Cleartexts :
        /\ CreatedIds /= {}
        /\ Len(c) = 8
        /\ checkSignatures(r, c, Sign(r, c))
        /\ decryptionContexts[r].stateHash = ZeroHash
        /\ myCallbackOutcome(r, c, Sign(r, c)) = "StateMismatchError"

(* C30: while paused, transferOwnership, addProvider, removeProvider,      *)
(* setCooldownSeconds, openNewBatch, closeCurrentBatch and unpause called  *)
(* by the owner are accepted and take effect, and pause reverts with       *)
(* PausedError and changes nothing; while not paused, unpause called by    *)
(* the owner is accepted and leaves paused false.                          *)
C30_PauseGatesOnlyPause ==
    [](\A o \in Accounts :
          o = owner =>
            /\ paused =>
                 /\ \A x \in Accounts :
                       /\ transferOwnershipOutcome(o, x) = "ok"
                       /\ ENABLED (transferOwnership(o, x) /\ owner' = x)
                       /\ addProviderOutcome(o, x) = "ok"
                       /\ ENABLED (addProvider(o, x) /\ isProvider'[x])
                       /\ removeProviderOutcome(o, x) = "ok"
                       /\ ENABLED (removeProvider(o, x) /\ ~isProvider'[x])
                 /\ \A cd \in CooldownChoices :
                       /\ setCooldownSecondsOutcome(o, cd) = "ok"
                       /\ ENABLED (setCooldownSeconds(o, cd) /\ cooldownSeconds' = cd)
                 /\ openNewBatchOutcome(o) = "ok"
                 /\ currentBatchId < MaxBatch =>
                       ENABLED (openNewBatch(o) /\ currentBatchId' = currentBatchId + 1)
                 /\ closeCurrentBatchOutcome(o) = "ok"
                 /\ ENABLED (closeCurrentBatch(o) /\ isBatchClosed'[currentBatchId])
                 /\ unpauseOutcome(o) = "ok"
                 /\ ENABLED (unpause(o) /\ ~paused')
                 /\ pauseOutcome(o) = "PausedError"
                 /\ ~ENABLED (pause(o) /\ vars' /= vars)
            /\ ~paused =>
                 /\ unpauseOutcome(o) = "ok"
                 /\ ENABLED (unpause(o) /\ ~paused')
                 /\ ~ENABLED (unpause(o) /\ vars' /= vars))

(* The system is paused under an owner who is not a provider, with the     *)
(* current batch still open and the initial cooldown in force.             *)
C30_Witness ==
    /\ paused
    /\ ~isProvider[owner]
    /\ ~isBatchClosed[currentBatchId]
    /\ cooldownSeconds = InitialCooldownSeconds
    /\ pauseOutcome(owner) = "PausedError"
    /\ unpauseOutcome(owner) = "ok"
    /\ closeCurrentBatchOutcome(owner) = "ok"
    /\ setCooldownSecondsOutcome(owner, UintMax) = "ok"

(* C31: a closed batch can be requested again whatever records exist for   *)
(* it: a provider that passes whenNotPaused and its disclosure cooldown is *)
(* accepted for every closed batch, and the accepted request stores a new  *)
(* unprocessed record under a fresh id and leaves every other record as it *)
(* was, so several unprocessed records of one batch coexist.  A myCallback *)
(* for request id r, accepted or rejected, never changes the record of     *)
(* another id.                                                             *)
C31_RepeatedRequests ==
    []( /\ \A a \in Accounts : \A b \in BatchIds :
              (/\ onlyProvider(a) = "ok"
               /\ whenNotPaused = "ok"
               /\ checkCooldown(a, lastDecryptionRequestTime) = "ok"
               /\ isBatchClosed[b]) =>
                 /\ requestBatchSummaryOutcome(a, b) = "ok"
                 /\ Len(oracleRequests) < MaxRequests + 1 =>
                      /\ ENABLED (/\ requestBatchSummaryWithin(a, b, MaxRequests + 1)
                                  /\ oracleRequests' /= oracleRequests)
                      /\ ~ENABLED
                           (/\ requestBatchSummaryWithin(a, b, MaxRequests + 1)
                            /\ ~(/\ NextRequestId \notin CreatedIds
                                 /\ decryptionContexts'[NextRequestId].batchId = b
                                 /\ ~decryptionContexts'[NextRequestId].processed
                                 /\ \A r \in RequestIds \ {NextRequestId} :
                                       decryptionContexts'[r] = decryptionContexts[r]))
        /\ \A r \in RequestIds : \A c \in Cleartexts : \A p \in Proofs(r, c) :
              ~ENABLED (/\ myCallback(r, c, p)
                        /\ \E q \in RequestIds \ {r} :
                              decryptionContexts'[q] /= decryptionContexts[q]) )

(* Two providers requested the summary of the same closed batch: two       *)
(* unprocessed records of that batch exist under different ids.            *)
C31_Witness ==
    \E r1 \in CreatedIds : \E r2 \in CreatedIds :
        /\ r1 /= r2
        /\ decryptionContexts[r1].batchId = decryptionContexts[r2].batchId
        /\ isBatchClosed[decryptionContexts[r1].batchId]
        /\ ~decryptionContexts[r1].processed
        /\ ~decryptionContexts[r2].processed
        /\ decryptionContexts[r1].stateHash /= ZeroHash
        /\ decryptionContexts[r2].stateHash /= ZeroHash

(* C32: after construction the deployer is the owner and a provider.  In   *)
(* every reachable state a transferOwnership by the owner leaves the       *)
(* provider set as it was (the new owner gains no provider status, the     *)
(* previous owner keeps its own), addProvider and removeProvider leave the *)
(* owner as it was, removeProvider applied by the owner to itself is       *)
(* accepted and ends with an owner that is not a provider, and an owner    *)
(* that is not a provider is refused with NotProvider by depositTime,      *)
(* withdrawTime and requestBatchSummary for every argument.                *)
C32_RolesIndependent ==
    /\ owner = Deployer
    /\ isProvider[Deployer]
    /\ [](\A o \in Accounts :
            o = owner =>
              /\ \A x \in Accounts :
                    /\ ENABLED (transferOwnership(o, x) /\ owner' = x)
                    /\ ~ENABLED (transferOwnership(o, x) /\ isProvider' /= isProvider)
                    /\ ~ENABLED (addProvider(o, x) /\ owner' /= owner)
                    /\ ~ENABLED (removeProvider(o, x) /\ owner' /= owner)
              /\ removeProviderOutcome(o, o) = "ok"
              /\ ENABLED (removeProvider(o, o) /\ owner' = o /\ ~isProvider'[o])
              /\ ~ENABLED (removeProvider(o, o) /\ isProvider'[o])
              /\ ~isProvider[o] =>
                    /\ \A h \in Hours :
                          /\ depositTimeOutcome(o, h) = "NotProvider"
                          /\ withdrawTimeOutcome(o, h) = "NotProvider"
                          /\ ~ENABLED (depositTime(o, h) /\ vars' /= vars)
                          /\ ~ENABLED (withdrawTime(o, h) /\ vars' /= vars)
                    /\ \A b \in BatchIds :
                          /\ requestBatchSummaryOutcome(o, b) = "NotProvider"
                          /\ ~ENABLED (requestBatchSummary(o, b) /\ vars' /= vars))

(* The deployer is still the owner but removed itself from the providers,  *)
(* while the other account was enrolled: with the system running, an open  *)
(* current batch, a closed earlier one and no cooldown pending, the        *)
(* owner's submissions and requests are refused as NotProvider.            *)
C32_Witness ==
    \E h \in Hours : \E b \in BatchIds :
        /\ owner = Deployer
        /\ ~isProvider[Deployer]
        /\ isProvider["alice"]
        /\ ~paused
        /\ ~isBatchClosed[currentBatchId]
        /\ isBatchClosed[b]
        /\ depositTimeOutcome(Deployer, h) = "NotProvider"
        /\ requestBatchSummaryOutcome(Deployer, b) = "NotProvider"
        /\ depositTimeOutcome("alice", h) = "ok"

====
